---------------------------- MODULE Spec2Model ----------------------------
(***************************************************************************)
(* A model of easyaccess' DB_Func command handlers (eautils/dbdo_utils.py)  *)
(* and of its file input/output layer (eautils/fileio.py).                  *)
(*                                                                         *)
(* Strings are sequences of one-character strings, so that the character    *)
(* tests and os.path.splitext are computed as the code computes them.       *)
(* None is the Python None.                                                 *)
(***************************************************************************)
EXTENDS Integers, Sequences, FiniteSets, TLC

VARIABLES
    proc,       \* "running", or "exited" once a handler called os._exit
    pc,         \* position of the shell: "prompt", or inside a load/append loop
    cmd,        \* the command last dispatched
    inp,        \* its arguments and what the environment answered to it
    loc,        \* the handler's local variables (chunk, iteration, done, ...)
    calls,      \* the calls the handler made to helpers outside this module
    msgs,       \* the messages the handler printed
    outcome,    \* how the handler ended: "none", "returned", "raised", "exited"
    sh,         \* the shell object's fields: dbname, con, cur, ...
    fs,         \* fileio: the files on disk, name -> size
    fileindex,  \* fileio: the fileindex threaded through write_file calls
    wr,         \* fileio: what the last write_file call did
    io          \* fileio: the last call of one of its functions, as observed

shellvars == <<proc, pc, cmd, inp, loc, calls, msgs, outcome, sh>>
filevars  == <<fs, fileindex, wr, io>>
vars      == <<proc, pc, cmd, inp, loc, calls, msgs, outcome, sh, fs, fileindex, wr,
               io>>

None == "None"

\* ------------------------------------------------------------------ bounds
MaxRows   == 3      \* rows of an input file: 0..MaxRows
MaxChunk  == 2      \* --chunksize / get_chunksize answers: 0..MaxChunk
MaxData   == 2      \* size of one DataFrame written by write_file: 1..MaxData
MaxMb     == 2      \* the max_mb argument of write_file
MaxIndex  == 3      \* write_file is not called again once fileindex exceeds it

\* ----------------------------------------------------------------- strings
Min(a, b) == IF a <= b THEN a ELSE b
Max(a, b) == IF a >= b THEN a ELSE b

\* s.rfind(c): the last position of c in s, 0 when there is none (1-based)
RFind(s, c) ==
    LET hits == {i \in 1..Len(s) : s[i] = c}
    IN IF hits = {} THEN 0 ELSE CHOOSE i \in hits : \A j \in hits : j <= i

\* os.path.basename(p)
Basename(p) == SubSeq(p, RFind(p, "/") + 1, Len(p))

\* os.path.splitext(p): <<root, ext>>; a leading dot of the last component
\* starts no extension
Splitext(p) ==
    LET sep == RFind(p, "/")
        dot == RFind(p, ".")
    IN IF dot > sep /\ \E k \in (sep + 1)..(dot - 1) : p[k] # "."
       THEN <<SubSeq(p, 1, dot - 1), SubSeq(p, dot, Len(p))>>
       ELSE <<p, <<>> >>

Digits == <<"0", "1", "2", "3", "4", "5", "6", "7", "8", "9">>

\* '%06d' % n, for 0 <= n < 10^6
Pad6(n) == [i \in 1..6 |-> Digits[((n \div (10 ^ (6 - i))) % 10) + 1]]

\* base + '_%06d' % fileindex + ext
IndexedName(base, idx, ext) == base \o <<"_">> \o Pad6(idx) \o ext

\* ------------------------------------------------------------ fileio.py
EXT_CSV  == <<".", "c", "s", "v">>
EXT_TAB  == <<".", "t", "a", "b">>
EXT_H5   == <<".", "h", "5">>
EXT_FITS == <<".", "f", "i", "t", "s">>

PANDAS_EXTS == {EXT_CSV, EXT_TAB, EXT_H5}
FITS_EXTS   == {EXT_FITS}
FILE_EXTS   == PANDAS_EXTS \cup FITS_EXTS

\* faulty variant: only a proper extension counts, a bare '.csv' does not
check_filetype_ext_only(filename, types) == Splitext(filename)[2] \in types

\* check_filetype(filename, types): TRUE, or FALSE where the code raises IOError
check_filetype(filename, types) ==
    LET se  == Splitext(filename)
        ext == IF se[2] = <<>> THEN se[1] ELSE se[2]
    IN ext \in types

\* the file system after filename is written with mode 'w' / appended with 'a'
Written(fsys, filename, dsize, mode) ==
    LET old == IF mode = "a" /\ filename \in DOMAIN fsys THEN fsys[filename] ELSE 0
    IN [f \in DOMAIN fsys \cup {filename} |->
            IF f = filename THEN old + dsize ELSE fsys[f]]

\* write_pandas(filename, df, fileindex, mode, header): [raised, fs, wrote];
\* df.to_csv / df.to_hdf are the writers, one per extension
write_pandas(fsys, filename, dsize, mode) ==
    LET ext == Splitext(filename)[2]
    IN IF ~check_filetype(filename, PANDAS_EXTS)
       THEN [raised |-> TRUE, fs |-> fsys, wrote |-> FALSE]
       ELSE IF ext \in {EXT_CSV, EXT_TAB, EXT_H5}
       THEN [raised |-> FALSE, fs |-> Written(fsys, filename, dsize, mode),
             wrote |-> TRUE]
       ELSE [raised |-> FALSE, fs |-> fsys, wrote |-> FALSE]

\* write_fitsio(filename, df, desc, fileindex, mode): [raised, fs, wrote]
write_fitsio(fsys, filename, dsize, mode) ==
    IF ~check_filetype(filename, FITS_EXTS)
    THEN [raised |-> TRUE, fs |-> fsys, wrote |-> FALSE]
    ELSE IF mode = "w"
    THEN [raised |-> FALSE, fs |-> Written(fsys, filename, dsize, "w"),
          wrote |-> TRUE]
    ELSE IF mode = "a" /\ filename \in DOMAIN fsys
    THEN [raised |-> FALSE, fs |-> Written(fsys, filename, dsize, "a"),
          wrote |-> TRUE]
    ELSE [raised |-> TRUE, fs |-> fsys, wrote |-> FALSE]

\* os.rename(src, dst)
Renamed(fsys, src, dst) ==
    [f \in (DOMAIN fsys \ {src}) \cup {dst} |->
        IF f = dst THEN fsys[src] ELSE fsys[f]]

\* the file whose size write_file looks at in mode 'a'
ThisFile(filename, idx) ==
    LET se == Splitext(filename)
    IN IF idx = 1 THEN filename ELSE IndexedName(se[1], idx, se[2])

\* `if (size > max_mb)`: it's time to increment the file
TimeToIncrement(size, max_mb) == size > max_mb

NoWrite == <<>>

\* write_file before it writes: the size it measured, whether it rotates, the
\* fileindex, file, mode and header it goes on with, the files after os.rename
WritePlan(fsys, filename, idx, mode, max_mb) ==
    LET se       == Splitext(filename)
        thisfile == ThisFile(filename, idx)
        size     == IF thisfile \in DOMAIN fsys THEN fsys[thisfile] ELSE -1
        rotate   == mode = "a" /\ size >= 0 /\ TimeToIncrement(size, max_mb)
    IN [size    |-> size,
        rotate  |-> rotate,
        idx     |-> IF rotate THEN idx + 1 ELSE idx,
        fileout |-> IF mode = "a"
                    THEN (IF rotate THEN IndexedName(se[1], idx + 1, se[2])
                          ELSE thisfile)
                    ELSE filename,
        mode    |-> IF rotate THEN "w" ELSE mode,
        header  |-> IF mode = "w" \/ rotate THEN "True"
                    ELSE IF mode = "a" THEN "False" ELSE None,
        fs      |-> IF rotate /\ idx = 1
                    THEN Renamed(fsys, filename, IndexedName(se[1], idx, se[2]))
                    ELSE fsys]

Skipped(fsys) == [raised |-> FALSE, fs |-> fsys, wrote |-> FALSE]

\* `if ext in PANDAS_EXTS: write_pandas(fileout, data, fileindex, mode, header)`
PandasStep(p, ext, dsize) ==
    IF ext \in PANDAS_EXTS
    THEN IF p.header = None THEN [raised |-> TRUE, fs |-> p.fs, wrote |-> FALSE]
         ELSE write_pandas(p.fs, p.fileout, dsize, p.mode)
    ELSE Skipped(p.fs)

\* `if ext in FITS_EXTS: write_fitsio(fileout, data, desc, fileindex, mode)`
FitsStep(p, fsys, ext, dsize) ==
    IF ext \in FITS_EXTS THEN write_fitsio(fsys, p.fileout, dsize, p.mode)
    ELSE Skipped(fsys)

Wrote(p, writer, r) ==
    IF r.wrote
    THEN << [writer |-> writer, file |-> p.fileout, mode |-> p.mode,
             header |-> IF writer = "write_pandas" THEN p.header ELSE None] >>
    ELSE NoWrite

\* what write_file returns, or that it raised, after its two steps wp and wf
Outcome(fsys, idx, ok, p, wp, wf) ==
    IF ~ok
    THEN [raised |-> TRUE, ret |-> idx, fs |-> fsys, writes |-> NoWrite,
          size |-> p.size, rotated |-> FALSE]
    ELSE IF wp.raised \/ wf.raised
    THEN [raised |-> TRUE, ret |-> idx, fs |-> wf.fs, writes |-> NoWrite,
          size |-> p.size, rotated |-> p.rotate]
    ELSE [raised |-> FALSE, ret |-> p.idx, fs |-> wf.fs,
          writes |-> Wrote(p, "write_pandas", wp) \o Wrote(p, "write_fitsio", wf),
          size |-> p.size, rotated |-> p.rotate]

\* the two writing steps of write_file, one after the other
Steps(fsys, idx, ok, p, ext, dsize, wp) ==
    Outcome(fsys, idx, ok, p, wp, FitsStep(p, wp.fs, ext, dsize))

\* write_file once the plan p is made: it raised if check_filetype or
\* os.path.getsize did, and else goes through its two steps
Planned(fsys, filename, dsize, idx, mode, p) ==
    Steps(fsys, idx,
          check_filetype(filename, FILE_EXTS) /\ ~(mode = "a" /\ p.size < 0),
          p, Splitext(filename)[2], dsize,
          PandasStep(p, Splitext(filename)[2], dsize))

\* write_file(filename, data, desc, fileindex, mode, max_mb):
\* [raised, ret, fs, writes, size, rotated]; ret is the returned fileindex
write_file(fsys, filename, dsize, idx, mode, max_mb) ==
    Planned(fsys, filename, dsize, idx, mode,
            WritePlan(fsys, filename, idx, mode, max_mb))

\* ------------------------------------------------- fileio: state machine
\* the output names of the write_file calls: o.csv, o.fits, .csv, o.txt
WriteNames ==
    { <<"o">> \o EXT_CSV, <<"o">> \o EXT_FITS, EXT_CSV, <<"o", ".", "t", "x", "t">> }

NoFiles == [f \in {} |-> 0]

\* no function of fileio called yet
NoIo == [fn |-> None]

\* write_file not called yet, the output name is f
NoCall(f) ==
    [filename |-> f, mode |-> None, given |-> 0, dsize |-> 0,
     raised |-> FALSE, ret |-> 0, writes |-> NoWrite, size |-> -1,
     rotated |-> FALSE, before |-> NoFiles]

\* no file written yet, fileindex = 1 (the default), output name f
FileStart(f) ==
    /\ fs = NoFiles
    /\ fileindex = 1
    /\ wr = NoCall(f)
    /\ io = NoIo

\* what is kept of one call of write_file
Written1(filename, mode, idx, dsize, fsys, r) ==
    [filename |-> filename, mode |-> mode, given |-> idx, dsize |-> dsize,
     raised |-> r.raised, ret |-> r.ret, writes |-> r.writes, size |-> r.size,
     rotated |-> r.rotated, before |-> fsys]

Threaded(idx, r) == IF r.raised THEN idx ELSE r.ret

\* one call fileindex = write_file(filename, data, desc, fileindex, mode, max_mb)
WriteFile(mode) ==
    /\ fileindex <= MaxIndex
    /\ \E dsize \in 1..MaxData :
         LET r == write_file(fs, wr.filename, dsize, fileindex, mode, MaxMb)
         IN /\ fs' = r.fs
            /\ fileindex' = Threaded(fileindex, r)
            /\ wr' = Written1(wr.filename, mode, fileindex, dsize, fs, r)
    /\ io' = io

WriteFileW == WriteFile("w") /\ UNCHANGED shellvars
WriteFileA == WriteFile("a") /\ UNCHANGED shellvars

\* ------------------------------------------------------- dbdo_utils.py
\* an optional value: Nothing is None, Some(x) is x
Nothing == <<>>
Some(x) == <<x>>
Get(o)  == o[1]

\* whitespace inside a command line; a line is a sequence of words and SP
SP == " "
\* line.split()
Split(line) == SelectSeq(line, LAMBDA w : w # SP)

\* one call to a helper defined outside this module, and whether it returned
Call(op, it, rows, ok) == [op |-> op, it |-> it, rows |-> rows, ok |-> ok]
Ext(op, ok) == Call(op, 0, <<>>, ok)

\* what a handler did: the calls it made, the messages it printed, how it ended
Res(c, m, o) == [calls |-> c, msgs |-> m, outcome |-> o]

NoLoc == [table |-> Nothing, chunk |-> Nothing, ftype |-> None, iterator |-> FALSE,
          nrows |-> 0, iteration |-> 0, done |-> FALSE, total_rows |-> 0,
          start |-> 0]

\* s.index(c): the first position of c in s, 0 where the code raises ValueError
Index(s, c) ==
    LET hits == {i \in 1..Len(s) : s[i] = c}
    IN IF hits = {} THEN 0 ELSE CHOOSE i \in hits : \A j \in hits : i <= j

\* faulty variant: do_execproc gives up the process when the procedure call fails
do_execproc_exits(line, callOK, qpOK) ==
    IF line # <<>> /\ Index(Split(line), "(") # 0 /\ Index(Split(line), ")") # 0
       /\ ~callOK
    THEN Res(<<Ext("callproc", FALSE)>>, <<"exception">>, "exited")
    ELSE Res(<<>>, <<>>, "returned")

\* do_execproc(line); callOK, qpOK: whether cur.callproc / query_and_print return
do_execproc(line, callOK, qpOK) ==
    LET toks == Split(line)
        open == Index(toks, "(")
        clos == Index(toks, ")")
    IN IF line = <<>> THEN Res(<<Ext("do_help", TRUE)>>, <<>>, "returned")
       ELSE IF open = 0 \/ clos = 0 THEN Res(<<>>, <<>>, "raised")  \* ValueError
       ELSE IF \E i \in clos..Len(toks) : toks[i] = "describe"
       THEN Res(<<Ext("query_and_print", qpOK)>>, <<>>,
                IF qpOK THEN "returned" ELSE "raised")
       ELSE IF callOK
       THEN Res(<<Ext("callproc", TRUE)>>, <<"Done!">>, "returned")
       ELSE Res(<<Ext("callproc", FALSE), Ext("print_exception", TRUE)>>,
                <<"exception">>, "returned")

\* re.search('\W', pw)
HasNonWord(pw) == \E i \in 1..Len(pw) : pw[i] \in {" ", "!"}

\* do_set_password(arg); pw1, pw2 are what getpass returns
do_set_password(pw1, pw2, qpOK, cfgOK) ==
    IF HasNonWord(pw1)
    THEN Res(<<>>, <<"Password contains whitespace, not set">>, "returned")
    ELSE IF pw1 = <<>>
    THEN Res(<<>>, <<"Password cannot be blank">>, "returned")
    ELSE IF pw1 # pw2
    THEN Res(<<>>, <<"Passwords don't match, not set">>, "returned")
    ELSE IF ~qpOK
    THEN Res(<<Ext("query_and_print", FALSE)>>,
             <<"Password could not be changed">>, "returned")
    ELSE IF ~cfgOK
    THEN Res(<<Ext("query_and_print", TRUE), Ext("write_desconfig", FALSE)>>,
             <<"Password could not be changed">>, "returned")
    ELSE Res(<<Ext("query_and_print", TRUE), Ext("write_desconfig", TRUE)>>,
             <<>>, "returned")

\* do_find_user(line)
do_find_user(dbname, line, qpOK) ==
    IF line = <<>> THEN Res(<<Ext("do_help", TRUE)>>, <<>>, "returned")
    ELSE IF dbname \notin {"dessci", "desoper", "destest"}
    THEN Res(<<>>, <<>>, "raised")                       \* query is unbound
    ELSE Res(<<Ext("query_and_print", qpOK)>>, <<>>,
             IF qpOK THEN "returned" ELSE "raised")

\* do_describe_table(arg); comOK: one of the two comment queries returned,
\* numOK: the num_rows query returned
do_describe_table(arg, comOK, numOK, qpOK) ==
    IF arg = <<>> THEN Res(<<Ext("do_help", TRUE)>>, <<>>, "returned")
    ELSE IF Split(arg) = <<>> THEN Res(<<>>, <<>>, "raised")   \* IndexError
    ELSE IF ~comOK
    THEN Res(<<Ext("query_results", FALSE), Ext("query_results", FALSE)>>,
             <<"Table not found.">>, "returned")
    ELSE Res(<<Ext("query_results", TRUE), Ext("query_results", numOK),
               Ext("query_and_print", qpOK)>>, <<>>,
             IF qpOK THEN "returned" ELSE "raised")

\* do_find_tables(arg) and do_find_tables_with_column(arg)
do_find_tables(arg, qpOK) ==
    IF arg = <<>> THEN Res(<<Ext("do_help", TRUE)>>, <<>>, "returned")
    ELSE Res(<<Ext("query_and_print", qpOK)>>, <<>>,
             IF qpOK THEN "returned" ELSE "raised")

do_find_tables_with_column(arg, qpOK) ==
    IF arg = <<>> THEN Res(<<Ext("do_help", TRUE)>>, <<>>, "returned")
    ELSE Res(<<Ext("query_and_print", qpOK)>>, <<>>,
             IF qpOK THEN "returned" ELSE "raised")

\* oneline.find(word) > -1, for the words of the lines drawn below
Mentions(keys, word) ==
    \E i \in 1..Len(keys) : keys[i] = word \/ (word = "column" /\ keys[i] = "columns")

\* the words of those lines that hold a '.'
Dotted == {"T.C"}

\* do_add_comment(line)
do_add_comment(line, qpOK) ==
    LET keys == Split(line)
        qp   == Res(<<Ext("query_and_print", qpOK)>>, <<>>,
                    IF qpOK THEN "returned" ELSE "raised")
    IN IF Mentions(keys, "table")
       THEN IF Len(keys) = 1 THEN Res(<<>>, <<"Missing table name">>, "returned")
            ELSE IF Len(keys) = 2
            THEN Res(<<>>, <<"Missing comment for table">>, "returned")
            ELSE qp
       ELSE IF Mentions(keys, "column")
       THEN IF Len(keys) = 1
            THEN Res(<<>>, <<"Missing column name (TABLE.COLUMN)">>, "returned")
            ELSE IF Len(keys) = 2
            THEN Res(<<>>, <<"Missing comment for column">>, "returned")
            ELSE IF keys[2] \notin Dotted               \* col.find('.') == -1
            THEN Res(<<>>, <<"Missing column name for table">>, "returned")
            ELSE qp
       ELSE Res(<<Ext("do_help", TRUE)>>, <<"Missing arguments">>, "returned")

\* faulty variant: a second attempt after a failed one
ConnectTriesRetry == 1 + 1

\* `for tries in range(1)`: the connection attempts of do_change_db
ConnectTries == 1

\* the attempts made: up to and including the first that connects
Attempts(answers) ==
    LET good == {i \in 1..ConnectTries : answers[i]}
        last == IF good = {} THEN ConnectTries
                ELSE CHOOSE i \in good : \A j \in good : i <= j
    IN [i \in 1..last |-> Ext("connect", answers[i])]

\* do_change_db(line); answers[i]: whether the i-th cx_Oracle.connect returns.
\* The result carries the shell's fields as the handler leaves them.
do_change_db(s, line, answers) ==
    LET toks   == Split(line)
        key_db == toks[1]
        s1     == [s EXCEPT !.dbname = key_db]
        tried  == Attempts(answers)
        connected == \E i \in 1..Len(tried) : tried[i].ok
        fails  == [i \in 1..Len(SelectSeq(tried, LAMBDA c : ~c.ok)) |->
                       "Error when trying to connect to database"]
        With(r, sx) == [calls |-> r.calls, msgs |-> r.msgs, outcome |-> r.outcome,
                        sh |-> sx]
    IN IF line = <<>> THEN With(Res(<<Ext("do_help", TRUE)>>, <<>>, "returned"), s)
       ELSE IF toks = <<>> THEN With(Res(<<>>, <<>>, "raised"), s)   \* IndexError
       ELSE IF key_db \notin {"dessci", "desoper", "destest"}
       THEN With(Res(<<>>, <<"DB does not exist or you don't have access to it">>,
                     "returned"), s)
       ELSE IF key_db = s.dbname
       THEN With(Res(<<>>, <<"Already connected">>, "returned"), s)
       ELSE IF key_db \notin s.configured
       THEN With(Res(<<>>, <<"DB does not exist in your desservices file">>,
                     "returned"), s1)
       ELSE IF ~connected
       THEN With(Res(<<Ext("con.close", TRUE)>> \o tried,
                     fails \o <<"Could not successfully connect to DB. Aborting.">>,
                     "exited"),
                 [s1 EXCEPT !.con = "closed"])
       ELSE With(Res(<<Ext("con.close", TRUE)>> \o tried
                         \o <<Ext("con.cursor", TRUE), Ext("set_messages", TRUE)>>,
                     fails \o <<"Run refresh_metadata_cache">>,
                     "returned"),
                 [s1 EXCEPT !.con = key_db,
                            !.con_autocommit = s.autocommit,
                            !.cur = [con |-> key_db, arraysize |-> s.prefetch]])

\* ------------------------------------------- do_load_table, do_append_table
invalid_chars == {"-", "$", "~", "@", "*"}

\* any((char in invalid_chars) for char in s)
AnyInvalid(s) == \E i \in 1..Len(s) : s[i] \in invalid_chars

\* one round of `for obj in [table, name]`: "ok", the rejection printed, or
\* "TypeError" where the code iterates over a filename that is None
CheckObj(obj, filename) ==
    IF obj = Nothing
    THEN IF filename = Nothing THEN "TypeError"
         ELSE IF AnyInvalid(Get(filename))
              THEN "Invalid table name, change filename or use --tablename"
              ELSE "ok"
    ELSE IF AnyInvalid(Get(obj)) THEN "Invalid table name" ELSE "ok"

\* for obj in [table, name]: ...
NameCheck(table, name, filename) ==
    LET first == CheckObj(table, filename)
    IN IF first # "ok" THEN first ELSE CheckObj(name, filename)

\* faulty variant: the larger of the two row counts
ChunkRowsLarger(chunksize_arg, memsize_arg, chunksize, memsize, memchunk_rows) ==
    LET chunk    == IF chunksize # Nothing THEN chunksize ELSE chunksize_arg
        memchunk == IF memsize # Nothing THEN memsize ELSE memsize_arg
    IN IF memchunk # Nothing
       THEN IF chunk # Nothing THEN Some(Max(Get(chunk), memchunk_rows))
            ELSE Some(memchunk_rows)
       ELSE chunk

\* the rows per chunk: chunksize_arg/memsize_arg are --chunksize/--memsize,
\* chunksize/memsize the keyword arguments, memchunk_rows what get_chunksize
\* returned
ChunkRows(chunksize_arg, memsize_arg, chunksize, memsize, memchunk_rows) ==
    LET chunk    == IF chunksize # Nothing THEN chunksize ELSE chunksize_arg
        memchunk == IF memsize # Nothing THEN memsize ELSE memsize_arg
    IN IF memchunk # Nothing
       THEN IF chunk # Nothing THEN Some(Min(Get(chunk), memchunk_rows))
            ELSE Some(memchunk_rows)
       ELSE chunk

\* eafile.read_file(filename); envOK: whether the reader could read the file
read_file(filename, envOK) ==
    LET ext == Splitext(filename)[2]
    IN IF ~check_filetype(ext, FILE_EXTS) THEN [ok |-> FALSE, ftype |-> None]
       ELSE IF ext \in PANDAS_EXTS THEN [ok |-> envOK, ftype |-> "pandas"]
       ELSE IF ext \in FITS_EXTS THEN [ok |-> envOK, ftype |-> "fits"]
       ELSE [ok |-> FALSE, ftype |-> None]

\* faulty variant: do_load_table does not look whether the table exists
LoadBlockedNever(exists) == FALSE

\* `if self.check_table_exists(table)`: do_load_table stops
LoadBlocked(exists) == exists

\* faulty variant: do_append_table does not look whether the table exists
AppendBlockedNever(exists) == FALSE

\* `if not self.check_table_exists(table)`: do_append_table stops
AppendBlocked(exists) == ~exists

Early(c, m, o) == [calls |-> c, msgs |-> m, outcome |-> o, loc |-> NoLoc]

\* The handlers up to the loop over the chunks. a: the arguments and the
\* environment's answers; kind: "load_table" or "append_table".
\* The result's outcome is "none" when the handler goes on into the loop.
Prologue(kind, a) ==
    LET check    == NameCheck(a.tablename, a.name, a.filename)
        memchunk == IF a.memsize # Nothing THEN a.memsize ELSE a.memsize_arg
        gc       == IF memchunk # Nothing
                    THEN <<Ext("get_chunksize", a.memrows # Nothing)>> ELSE <<>>
        chunk    == ChunkRows(a.chunksize_arg, a.memsize_arg, a.chunksize, a.memsize,
                              IF a.memrows = Nothing THEN 0 ELSE Get(a.memrows))
        se       == Splitext(Basename(Get(a.filename)))
        table    == IF a.tablename # Nothing THEN Get(a.tablename)
                    ELSE IF a.name # Nothing THEN Get(a.name) ELSE se[1]
        exists   == <<Ext("check_table_exists", a.exists)>>
        blocked  == IF kind = "load_table" THEN LoadBlocked(a.exists)
                    ELSE AppendBlocked(a.exists)
        rf       == read_file(Get(a.filename), a.readOK)
        lc       == [NoLoc EXCEPT !.table = Some(table),
                        !.chunk = IF rf.ftype = "fits" /\ chunk = Nothing
                                  THEN Some(a.nrows) ELSE chunk,
                        !.ftype = rf.ftype, !.iterator = a.iterator,
                        !.nrows = a.nrows]
    IN IF a.how # "ok" THEN Early(<<Ext("do_help", TRUE)>>, <<>>, "returned")
       ELSE IF check = "TypeError" THEN Early(<<>>, <<>>, "raised")
       ELSE IF check # "ok" THEN Early(<<>>, <<check>>, "returned")
       ELSE IF memchunk # Nothing /\ a.memrows = Nothing
       THEN Early(gc, <<>>, "raised")
       ELSE IF a.filename = Nothing THEN Early(gc, <<>>, "returned")
       ELSE IF se[2] = EXT_H5 /\ chunk # Nothing
       THEN Early(gc, <<"HDF5 file upload with chunksize is not supported yet">>,
                  "returned")
       ELSE IF blocked
       THEN Early(gc \o exists,
                  <<IF kind = "load_table" THEN "Table already exists"
                    ELSE "Table does not exist">>, "returned")
       ELSE IF ~rf.ok
       THEN Early(gc \o exists \o <<Ext("read_file", FALSE), Ext("print_exception", TRUE)>>,
                  <<"exception">>, "returned")
       ELSE [calls |-> gc \o exists \o <<Ext("read_file", TRUE)>>, msgs |-> <<>>,
             outcome |-> "none", loc |-> lc]

do_load_table(a)   == Prologue("load_table", a)
do_append_table(a) == Prologue("append_table", a)

\* rows a+1 .. b of the file, in file order
Rows(a, b) == [i \in 1..(b - a) |-> a + i]

\* data.get_chunk(chunk) / data: the rows read, Nothing at StopIteration
PandasRead(l) ==
    IF l.iterator
    THEN IF l.start >= l.nrows THEN Nothing
         ELSE Some(Rows(l.start, IF l.chunk = Nothing THEN l.nrows
                                 ELSE Min(l.start + Get(l.chunk), l.nrows)))
    ELSE Some(Rows(0, l.nrows))

\* df[1][start:start + chunk]
FitsRead(l) ==
    Some(Rows(Min(l.start, l.nrows), Min(l.start + Get(l.chunk), l.nrows)))

\* the except clauses around create_table and insert_data
OnCreateError == <<Ext("print_exception", TRUE), Ext("drop_table", TRUE)>>

\* faulty variant: do_append_table drops the table as do_load_table does
OnInsertErrorDrops(kind) ==
    <<Ext("print_exception", TRUE), Ext("drop_table", TRUE)>>

OnInsertError(kind) ==
    IF kind = "load_table"
    THEN <<Ext("print_exception", TRUE), Ext("drop_table", TRUE)>>
    ELSE <<Ext("print_exception", TRUE)>>

Success(kind) ==
    IF kind = "load_table" THEN "loaded successfully" ELSE "appended successfully"

\* One pass of `while not done`. tryFails: something in the try block that
\* reads the chunk raised; createOK, insertOK: whether create_table and
\* insert_data return. The outcome is "none" while the loop goes on.
Pass(kind, l, tryFails, createOK, insertOK) ==
    LET read   == IF l.ftype = "pandas" THEN PandasRead(l) ELSE FitsRead(l)
        rows   == Get(read)
        l1     == [l EXCEPT !.start = IF l.ftype = "fits" THEN @ + Get(l.chunk)
                                      ELSE @ + Len(rows),
                            !.total_rows = @ + Len(rows)]
        create == kind = "load_table" /\ l.iteration = 0
        made   == IF create THEN <<Ext("create_table", TRUE)>> ELSE <<>>
        l2     == [l1 EXCEPT !.iteration = @ + 1,
                             !.done = (l.ftype = "pandas" /\ ~l.iterator)]
        Out(c, m, o, lx) == [calls |-> c, msgs |-> m, outcome |-> o, loc |-> lx]
    IN IF tryFails \/ read = Nothing \/ Len(rows) = 0
       THEN Out(<<>>, <<Success(kind)>>, "returned", l)              \* break
       ELSE IF create /\ ~createOK
       THEN Out(<<Ext("create_table", FALSE)>> \o OnCreateError, <<"exception">>,
                "returned", l1)
       ELSE IF ~insertOK
       THEN Out(made \o <<Call("insert_data", l.iteration, rows, FALSE)>>
                     \o OnInsertError(kind), <<"exception">>, "returned", l1)
       ELSE Out(made \o <<Call("insert_data", l.iteration, rows, TRUE)>>,
                IF l2.done THEN <<Success(kind)>> ELSE <<>>,
                IF l2.done THEN "returned" ELSE "none", l2)

\* --------------------------------------------------- shell: state machine
MaxPrefetch == 1    \* the prefetch setting: 1..MaxPrefetch

NoInp == [how |-> None]

\* the shell at its first prompt, connected to dessci
ShellStart(pf, ac, cf) ==
    /\ proc = "running"
    /\ pc = "prompt"
    /\ cmd = None
    /\ inp = NoInp
    /\ loc = NoLoc
    /\ calls = <<>>
    /\ msgs = <<>>
    /\ outcome = "none"
    /\ sh = [dbname |-> "dessci", configured |-> cf, prefetch |-> pf,
             autocommit |-> ac, con |-> "dessci", con_autocommit |-> ac,
             cur |-> [con |-> "dessci", arraysize |-> pf]]

AtPrompt == proc = "running" /\ pc = "prompt"

\* the handler of command c ran, or ran up to its loop, with result r
Ran(c, i, r, l, s) ==
    /\ cmd' = c
    /\ inp' = i
    /\ calls' = r.calls
    /\ msgs' = r.msgs
    /\ outcome' = r.outcome
    /\ loc' = l
    /\ sh' = s
    /\ pc' = IF r.outcome = "none" THEN "loop" ELSE "done"
    /\ proc' = IF r.outcome = "exited" THEN "exited" ELSE proc
    /\ UNCHANGED filevars

\* the command loop reads the next line: the handler's locals and what it
\* printed are gone
Prompt ==
    /\ proc = "running" /\ pc = "done"
    /\ pc' = "prompt" /\ cmd' = None /\ inp' = NoInp /\ loc' = NoLoc
    /\ calls' = <<>> /\ msgs' = <<>> /\ outcome' = "none"
    /\ UNCHANGED <<proc, sh>>
    /\ UNCHANGED filevars

ExecLines == { <<>>, <<"p">>, <<"p", "(">>, <<"p", "(", "1", ")">>,
               <<"p", "(", ")", SP, "describe">> }
Passwords == { <<>>, <<"a">>, <<"a", " ">>, <<"b">> }
ChangeLines == { <<>>, <<SP>>, <<"dessci">>, <<SP, "desoper">>, <<"destest">>,
                 <<"other">> }
UserLines == { <<>>, <<"Doe">> }
DescribeArgs == { <<>>, <<SP>>, <<"T">>, <<"T", SP, "with", SP, "M%">> }
FindArgs == { <<>>, <<"%S%">> }
CommentLines == { <<>>, <<"table">>, <<"table", SP, "T">>,
                  <<"table", SP, "T", SP, "'c'">>, <<"column">>,
                  <<"column", SP, "T.C">>, <<"column", SP, "T", SP, "'c'">>,
                  <<"columns", SP, "T.C", SP, "'c'">>, <<"x">> }

Execproc ==
    /\ AtPrompt
    /\ \E line \in ExecLines, callOK \in BOOLEAN, qpOK \in BOOLEAN :
         Ran("execproc", [line |-> line, callOK |-> callOK, qpOK |-> qpOK],
             do_execproc(line, callOK, qpOK), NoLoc, sh)

SetPassword ==
    /\ AtPrompt
    /\ \E pw1 \in Passwords, pw2 \in Passwords, qpOK \in BOOLEAN, cfgOK \in BOOLEAN :
         Ran("set_password", [pw1 |-> pw1, pw2 |-> pw2, qpOK |-> qpOK, cfgOK |-> cfgOK],
             do_set_password(pw1, pw2, qpOK, cfgOK), NoLoc, sh)

ChangeDb ==
    /\ AtPrompt
    /\ \E line \in ChangeLines, answers \in [1..ConnectTries -> BOOLEAN] :
         LET r == do_change_db(sh, line, answers)
         IN Ran("change_db", [line |-> line, answers |-> answers, before |-> sh],
                r, NoLoc, r.sh)

FindUser ==
    /\ AtPrompt
    /\ \E line \in UserLines, qpOK \in BOOLEAN :
         Ran("find_user", [line |-> line, qpOK |-> qpOK],
             do_find_user(sh.dbname, line, qpOK), NoLoc, sh)

DescribeTable ==
    /\ AtPrompt
    /\ \E arg \in DescribeArgs, comOK \in BOOLEAN, numOK \in BOOLEAN, qpOK \in BOOLEAN :
         Ran("describe_table", [line |-> arg, comOK |-> comOK, numOK |-> numOK,
                                qpOK |-> qpOK],
             do_describe_table(arg, comOK, numOK, qpOK), NoLoc, sh)

FindTables ==
    /\ AtPrompt
    /\ \E arg \in FindArgs, qpOK \in BOOLEAN :
         Ran("find_tables", [line |-> arg, qpOK |-> qpOK],
             do_find_tables(arg, qpOK), NoLoc, sh)

FindTablesWithColumn ==
    /\ AtPrompt
    /\ \E arg \in FindArgs, qpOK \in BOOLEAN :
         Ran("find_tables_with_column", [line |-> arg, qpOK |-> qpOK],
             do_find_tables_with_column(arg, qpOK), NoLoc, sh)

AddComment ==
    /\ AtPrompt
    /\ \E line \in CommentLines, qpOK \in BOOLEAN :
         Ran("add_comment", [line |-> line, qpOK |-> qpOK],
             do_add_comment(line, qpOK), NoLoc, sh)

\* the arguments of load_table / append_table and the environment's answers
DefaultArgs ==
    [how |-> "ok", filename |-> Nothing, tablename |-> Nothing, name |-> Nothing,
     chunksize_arg |-> Nothing, memsize_arg |-> Nothing, chunksize |-> Nothing,
     memsize |-> Nothing, memrows |-> Nothing, exists |-> FALSE, readOK |-> FALSE,
     iterator |-> FALSE, nrows |-> 0]

Made(r, op) == \E i \in 1..Len(r.calls) : r.calls[i].op = op

\* the answers kept with a command: those of the calls that were made, and
\* exists, whether the target table is in the database
Asked(a, r) ==
    [a EXCEPT !.memrows  = IF Made(r, "get_chunksize") THEN @ ELSE Nothing,
              !.readOK   = IF Made(r, "read_file") THEN @ ELSE FALSE,
              !.iterator = IF r.outcome = "none" /\ r.loc.ftype = "pandas" THEN @
                           ELSE FALSE,
              !.nrows    = IF r.outcome = "none" THEN @ ELSE 0]

T_CSV   == <<"t">> \o EXT_CSV
T_H5    == <<"t">> \o EXT_H5
T_FITS  == <<"d", "/", "t">> \o EXT_FITS
T_X_CSV == <<"t", "-", "x">> \o EXT_CSV

LoadFiles   == {Nothing, Some(T_CSV), Some(T_X_CSV), Some(T_H5), Some(T_FITS)}
TableNames  == {Nothing, Some(<<"g">>), Some(<<"b", "$">>)}
KwNames     == {Nothing, Some(<<"n">>), Some(<<"n", "@">>)}
ChunkSizes  == {Nothing} \cup {Some(n) : n \in 0..MaxChunk}
MemSizes    == {Nothing, Some(1)}
MemRows     == {Nothing} \cup {Some(n) : n \in 0..MaxChunk}

\* load_table / append_table is dispatched; F, T, N, CS, MS, CSK, MSK: the sets
\* its file name, --tablename, name, --chunksize, --memsize, chunksize and
\* memsize are drawn from; NR: the numbers of rows of the file
TableCmd(kind, F, T, N, CS, MS, CSK, MSK, NR) ==
    /\ AtPrompt
    /\ \/ \E how \in {"error", "help"}, ex \in BOOLEAN :
            LET a == [DefaultArgs EXCEPT !.how = how, !.exists = ex]
                r == IF kind = "load_table" THEN do_load_table(a)
                     ELSE do_append_table(a)
            IN Ran(kind, a, r, r.loc, sh)
       \/ \E f \in F, t \in T, n \in N, cs \in CS, ms \in MS, csk \in CSK,
             msk \in MSK :
            \* the environment is asked only once the names are accepted
            LET go == f # Nothing /\ NameCheck(t, n, f) = "ok"
                pd == go /\ Splitext(Get(f))[2] \in PANDAS_EXTS
            IN \E mr \in (IF ms = Nothing /\ msk = Nothing THEN {Nothing} ELSE MemRows),
                  ex \in BOOLEAN,
                  rd \in (IF go THEN BOOLEAN ELSE {FALSE}),
                  it \in (IF pd THEN BOOLEAN ELSE {FALSE}),
                  nr \in (IF go THEN NR ELSE {0}) :
                 LET a == [how |-> "ok", filename |-> f, tablename |-> t,
                           name |-> n, chunksize_arg |-> cs, memsize_arg |-> ms,
                           chunksize |-> csk, memsize |-> msk, memrows |-> mr,
                           exists |-> ex, readOK |-> rd, iterator |-> it,
                           nrows |-> nr]
                     r == IF kind = "load_table" THEN do_load_table(a)
                          ELSE do_append_table(a)
                 IN Ran(kind, Asked(a, r), r, r.loc, sh)

LoadTable ==
    TableCmd("load_table", LoadFiles, TableNames, KwNames, ChunkSizes,
             {Nothing}, {Nothing}, {Nothing}, 0..MaxRows)

AppendTable ==
    TableCmd("append_table", LoadFiles, TableNames, KwNames, ChunkSizes,
             {Nothing}, {Nothing}, {Nothing}, 0..MaxRows)

\* one pass of the loop of the handler that is running
LoopPass(kind) ==
    /\ proc = "running" /\ pc = "loop" /\ cmd = kind
    /\ \E tryFails \in BOOLEAN, createOK \in BOOLEAN, insertOK \in BOOLEAN :
         LET r == Pass(kind, loc, tryFails, createOK, insertOK)
         IN /\ calls' = calls \o r.calls
            /\ msgs' = msgs \o r.msgs
            /\ outcome' = r.outcome
            /\ loc' = r.loc
            /\ pc' = IF r.outcome = "none" THEN "loop" ELSE "done"
    /\ UNCHANGED <<proc, cmd, inp, sh>>
    /\ UNCHANGED filevars

LoadPass   == LoopPass("load_table")
AppendPass == LoopPass("append_table")

\* ------------------------------------------------------- specifications
Init ==
    /\ \E pf \in 1..MaxPrefetch, ac \in BOOLEAN :
         ShellStart(pf, ac, {"dessci", "desoper"})
    /\ FileStart(<<"o">> \o EXT_CSV)

Next ==
    \/ Execproc
    \/ SetPassword
    \/ ChangeDb
    \/ FindUser
    \/ DescribeTable
    \/ FindTables
    \/ FindTablesWithColumn
    \/ LoadTable
    \/ AppendTable
    \/ LoadPass
    \/ AppendPass
    \/ AddComment
    \/ Prompt

Spec == Init /\ [][Next]_vars

\* load_table and append_table with every way of giving the chunk size
LoadTableChunked ==
    TableCmd("load_table", {Some(T_CSV), Some(T_FITS)}, {Nothing}, {Nothing},
             ChunkSizes, MemSizes, ChunkSizes, MemSizes, {MaxRows})

AppendTableChunked ==
    TableCmd("append_table", {Some(T_CSV), Some(T_FITS)}, {Nothing}, {Nothing},
             ChunkSizes, MemSizes, ChunkSizes, MemSizes, {MaxRows})

ChunkNext ==
    \/ LoadTableChunked
    \/ AppendTableChunked
    \/ LoadPass
    \/ AppendPass
    \/ Prompt

ChunkSpec == Init /\ [][ChunkNext]_vars

\* fileio's write_file, called again and again with the fileindex it returned
FileInit ==
    /\ ShellStart(1, TRUE, {"dessci", "desoper"})
    /\ \E f \in WriteNames : FileStart(f)

FileNext == WriteFileW \/ WriteFileA

FileSpec == FileInit /\ [][FileNext]_vars

\* ------------------------------------------- fileio: its functions, called
Unrecognized == "Unrecognized file type"
Problem      == "Problem reading"

\* what a call did: the exception it raised (None if it returned), the
\* exception's message or the value returned, the library and os calls it
\* made, the files on disk after it
IoRes(e, m, c, fsys) == [error |-> e, msg |-> m, calls |-> c, fs |-> fsys]

\* `if types is None: types = FILE_EXTS`
TypesOr(types) == IF types = Nothing THEN FILE_EXTS ELSE Get(types)

\* check_filetype(filename, types): returns True or raises IOError(msg)
check_filetype_call(fsys, filename, types) ==
    IF check_filetype(filename, TypesOr(types))
    THEN IoRes(None, "True", <<>>, fsys)
    ELSE IoRes("IOError", Unrecognized, <<>>, fsys)

\* `ext in ('.h5')`: ('.h5') is a string, so ext is looked up as a substring
InH5(ext) ==
    \E i \in 1..(Len(EXT_H5) + 1), n \in 0..Len(EXT_H5) :
        i + n - 1 <= Len(EXT_H5) /\ ext = SubSeq(EXT_H5, i, i + n - 1)

\* fileio.py imports os, numpy as np and fitsio; the name pd is not bound
PdBound == FALSE

\* `df = pd.read_csv(...)` / `df = pd.read_hdf(...)` inside try / except:
\* whatever is raised, NameError included, becomes IOError('Problem reading')
PdRead(reader, fsys, filename, envOK) ==
    IF ~PdBound THEN IoRes("IOError", Problem, <<>>, fsys)
    ELSE IF filename \in DOMAIN fsys /\ envOK
    THEN IoRes(None, "df", <<reader>>, fsys)
    ELSE IoRes("IOError", Problem, <<reader>>, fsys)

\* read_pandas(filename); envOK: whether the reader can parse the file
read_pandas(fsys, filename, envOK) ==
    IF ~check_filetype(filename, PANDAS_EXTS)
    THEN IoRes("IOError", Unrecognized, <<>>, fsys)
    ELSE IF Splitext(filename)[2] \in {EXT_CSV, EXT_TAB}
    THEN PdRead("pd.read_csv", fsys, filename, envOK)
    ELSE IF InH5(Splitext(filename)[2])
    THEN PdRead("pd.read_hdf", fsys, filename, envOK)
    ELSE IoRes("UnboundLocalError", "df", <<>>, fsys)

\* read_fitsio(filename); envOK: whether fitsio can open the file
read_fitsio(fsys, filename, envOK) ==
    IF ~check_filetype(filename, FITS_EXTS)
    THEN IoRes("IOError", Unrecognized, <<>>, fsys)
    ELSE IF filename \in DOMAIN fsys /\ envOK
    THEN IoRes(None, "fits", <<"fitsio.FITS">>, fsys)
    ELSE IoRes("IOError", Problem, <<"fitsio.FITS">>, fsys)

\* fileio's read_file(filename): the extension alone goes to check_filetype
fileio_read_file(fsys, filename, envOK) ==
    IF ~check_filetype(Splitext(filename)[2], FILE_EXTS)
    THEN IoRes("IOError", Unrecognized, <<>>, fsys)
    ELSE IF Splitext(filename)[2] \in PANDAS_EXTS
    THEN read_pandas(fsys, filename, envOK)
    ELSE IF Splitext(filename)[2] \in FITS_EXTS
    THEN read_fitsio(fsys, filename, envOK)
    ELSE IoRes("IOError", "", <<>>, fsys)

\* a writer's call as observed: r is what the writer did, accepted whether
\* its check_filetype returned, made the calls it got to
Observed(r, accepted, made) ==
    IoRes(IF ~r.raised THEN None ELSE IF accepted THEN "OSError" ELSE "IOError",
          IF ~r.raised THEN "None"
          ELSE IF accepted THEN "No such file" ELSE Unrecognized,
          made, r.fs)

\* write_pandas(filename, df, fileindex, mode, header) and its to_csv / to_hdf
PandasCalls(filename, r) ==
    IF r.wrote
    THEN <<IF Splitext(filename)[2] = EXT_H5 THEN "df.to_hdf" ELSE "df.to_csv">>
    ELSE <<>>

write_pandas_call(fsys, filename, dsize, mode) ==
    Observed(write_pandas(fsys, filename, dsize, mode),
             check_filetype(filename, PANDAS_EXTS),
             PandasCalls(filename, write_pandas(fsys, filename, dsize, mode)))

\* write_fitsio(filename, df, desc, fileindex, mode): os.path.exists,
\* os.remove and fitsio.write in mode 'w', fitsio.FITS(..., 'rw') in mode 'a'
FitsCalls(fsys, filename, mode, accepted, r) ==
    IF r.wrote /\ mode = "w"
    THEN <<"os.path.exists">>
         \o (IF filename \in DOMAIN fsys THEN <<"os.remove">> ELSE <<>>)
         \o <<"fitsio.write">>
    ELSE IF r.wrote \/ (r.raised /\ accepted) THEN <<"fitsio.FITS">>
    ELSE <<>>

write_fitsio_call(fsys, filename, dsize, mode) ==
    Observed(write_fitsio(fsys, filename, dsize, mode),
             check_filetype(filename, FITS_EXTS),
             FitsCalls(fsys, filename, mode, check_filetype(filename, FITS_EXTS),
                       write_fitsio(fsys, filename, dsize, mode)))

\* the writers write_file called
Writers(writes) == [i \in 1..Len(writes) |-> writes[i].writer]

\* write_file(...): os.path.getsize in mode 'a', os.rename when the first
\* file is moved away, then the writers
FileCalls(idx, mode, accepted, r) ==
    (IF accepted /\ mode = "a" THEN <<"os.path.getsize">> ELSE <<>>)
    \o (IF r.rotated /\ idx = 1 THEN <<"os.rename">> ELSE <<>>)
    \o Writers(r.writes)

write_file_call(fsys, filename, dsize, idx, mode, max_mb) ==
    Observed(write_file(fsys, filename, dsize, idx, mode, max_mb),
             check_filetype(filename, FILE_EXTS),
             FileCalls(idx, mode, check_filetype(filename, FILE_EXTS),
                       write_file(fsys, filename, dsize, idx, mode, max_mb)))

\* the file names the functions are called with:
\* o.csv, o.h5, o.fits, .csv, .fits, o.txt, o
IoNames ==
    { <<"o">> \o EXT_CSV, <<"o">> \o EXT_H5, <<"o">> \o EXT_FITS, EXT_CSV,
      EXT_FITS, <<"o", ".", "t", "x", "t">>, <<"o">> }

\* the types check_filetype is called with
CheckTypes ==
    {Nothing, Some(PANDAS_EXTS), Some(FITS_EXTS), Some(FILE_EXTS), Some({})}

\* the disk with file f of size s on it, or with no file when s = 0
Disk(f, s) == IF s = 0 THEN NoFiles ELSE [x \in {f} |-> s]

\* the files are small enough for one more write
Small == \A f \in DOMAIN fs : fs[f] <= MaxMb

\* function fn was called with the file name of this run and did r
IoDone(fn, mode, types, idx, r) ==
    /\ io' = [fn |-> fn, filename |-> wr.filename, mode |-> mode,
              types |-> types, error |-> r.error, msg |-> r.msg,
              calls |-> r.calls, before |-> fs, after |-> r.fs]
    /\ fs' = r.fs
    /\ fileindex' = idx
    /\ wr' = wr
    /\ UNCHANGED shellvars

CheckFiletype ==
    \E types \in CheckTypes :
        IoDone("check_filetype", None, types, fileindex,
               check_filetype_call(fs, wr.filename, types))

ReadFile ==
    \E envOK \in BOOLEAN :
        IoDone("read_file", None, Nothing, fileindex,
               fileio_read_file(fs, wr.filename, envOK))

ReadPandas ==
    \E envOK \in BOOLEAN :
        IoDone("read_pandas", None, Nothing, fileindex,
               read_pandas(fs, wr.filename, envOK))

ReadFitsio ==
    \E envOK \in BOOLEAN :
        IoDone("read_fitsio", None, Nothing, fileindex,
               read_fitsio(fs, wr.filename, envOK))

WritePandas ==
    /\ Small
    /\ \E mode \in {"w", "a"}, dsize \in 1..MaxData :
         IoDone("write_pandas", mode, Nothing, fileindex,
                write_pandas_call(fs, wr.filename, dsize, mode))

WriteFitsio ==
    /\ Small
    /\ \E mode \in {"w", "a"}, dsize \in 1..MaxData :
         IoDone("write_fitsio", mode, Nothing, fileindex,
                write_fitsio_call(fs, wr.filename, dsize, mode))

WriteFileCall ==
    /\ fileindex <= MaxIndex
    /\ \E mode \in {"w", "a"}, dsize \in 1..MaxData :
         IoDone("write_file", mode, Nothing,
                Threaded(fileindex,
                         write_file(fs, wr.filename, dsize, fileindex, mode, MaxMb)),
                write_file_call(fs, wr.filename, dsize, fileindex, mode, MaxMb))

\* the functions of fileio called in any order on one file name, the file
\* there already or not
IoInit ==
    /\ ShellStart(1, TRUE, {"dessci", "desoper"})
    /\ \E f \in IoNames, s \in 0..(MaxMb + 1) :
         /\ fs = Disk(f, s)
         /\ wr = NoCall(f)
    /\ fileindex = 1
    /\ io = NoIo

IoNext ==
    \/ CheckFiletype
    \/ ReadFile
    \/ ReadPandas
    \/ ReadFitsio
    \/ WritePandas
    \/ WriteFitsio
    \/ WriteFileCall

IoSpec == IoInit /\ [][IoNext]_vars

\* ---------------------------------------------------------------- claims
IsTableCmd == cmd \in {"load_table", "append_table"}

Printed(m) == \E i \in 1..Len(msgs) : msgs[i] = m

Called(op) == \E i \in 1..Len(calls) : calls[i].op = op

\* the rows handed to insert_data calls that returned, in call order
RECURSIVE InsertedRows(_)
InsertedRows(cs) ==
    IF cs = <<>> THEN <<>>
    ELSE (IF Head(cs).op = "insert_data" /\ Head(cs).ok THEN Head(cs).rows ELSE <<>>)
         \o InsertedRows(Tail(cs))

\* C1 (as claimed): whenever do_load_table has printed 'loaded successfully
\* with N rows', create_table was called, every row of the file went to
\* insert_data exactly once and in file order, and N is the number of rows of
\* the file.
C1_LoadedMeansAllRowsInserted ==
    (cmd = "load_table" /\ Printed("loaded successfully")) =>
        /\ Called("create_table")
        /\ InsertedRows(calls) = Rows(0, inp.nrows)
        /\ loc.total_rows = inp.nrows

\* C2: when the target table exists as do_load_table is invoked, the handler
\* calls none of read_file, create_table, insert_data and drop_table and does
\* not print the success message.
C2_ExistingTableUntouched ==
    (cmd = "load_table" /\ inp.exists) =>
        /\ ~Called("read_file") /\ ~Called("create_table")
        /\ ~Called("insert_data") /\ ~Called("drop_table")
        /\ ~Printed("loaded successfully")

C2_Witness ==
    /\ cmd = "load_table" /\ inp.exists /\ pc = "done"
    /\ Called("check_table_exists") /\ Printed("Table already exists")

\* C3: when the target table does not exist as do_append_table is invoked, the
\* handler calls neither read_file nor insert_data and does not print the
\* success message; and do_append_table never calls create_table.
C3_MissingTableNotAppended ==
    /\ (cmd = "append_table" /\ ~inp.exists) =>
          /\ ~Called("read_file") /\ ~Called("insert_data")
          /\ ~Printed("appended successfully")
    /\ cmd = "append_table" => ~Called("create_table")

C3_Witness ==
    /\ cmd = "append_table" /\ ~inp.exists /\ pc = "done"
    /\ Called("check_table_exists") /\ Printed("Table does not exist")

\* C4: do_append_table never calls drop_table or create_table; when insert_data
\* raises on chunk k the handler returns without the success message, the
\* calls before it are the inserts of chunks 0..k-1, all returned and none
\* undone, and no chunk is inserted after k.
C4_AppendNotAtomic ==
    cmd = "append_table" =>
        /\ ~Called("drop_table") /\ ~Called("create_table")
        /\ \A i \in 1..Len(calls) :
             (calls[i].op = "insert_data" /\ ~calls[i].ok) =>
                 LET k   == calls[i].it
                     ins == SelectSeq(SubSeq(calls, 1, i - 1),
                                      LAMBDA c : c.op = "insert_data")
                 IN /\ pc = "done" /\ outcome = "returned"
                    /\ ~Printed("appended successfully")
                    /\ Len(ins) = k
                    /\ \A j \in 1..k : ins[j].it = j - 1 /\ ins[j].ok
                    /\ \A j \in (i + 1)..Len(calls) : calls[j].op # "insert_data"
                    /\ loc.iteration = k

C4_Witness ==
    /\ cmd = "append_table"
    /\ \E i \in 1..Len(calls) :
         calls[i].op = "insert_data" /\ ~calls[i].ok /\ calls[i].it = 2

FailedCall(op) == \E i \in 1..Len(calls) : calls[i].op = op /\ ~calls[i].ok

KeyDb(line) == Split(line)[1]

\* a change_db call that switches to a different, configured database
Switches ==
    /\ cmd = "change_db"
    /\ Split(inp.line) # <<>>
    /\ KeyDb(inp.line) \in {"dessci", "desoper", "destest"}
    /\ KeyDb(inp.line) # inp.before.dbname
    /\ KeyDb(inp.line) \in inp.before.configured

\* C6: a do_change_db call that switches to a different, configured database
\* closes the old connection and then makes exactly one connection attempt;
\* a new cursor, with arraysize = prefetch, is created only if that attempt
\* succeeded.
C6_SingleConnectAttempt ==
    Switches =>
        /\ Len(calls) >= 2
        /\ calls[1].op = "con.close"
        /\ calls[2].op = "connect"
        /\ \A i \in 1..Len(calls) : calls[i].op = "connect" => i = 2
        /\ Called("con.cursor") <=> calls[2].ok
        /\ calls[2].ok =>
              /\ sh.con = KeyDb(inp.line)
              /\ sh.cur = [con |-> KeyDb(inp.line), arraysize |-> sh.prefetch]
        /\ ~calls[2].ok => (sh.cur = inp.before.cur /\ sh.con = "closed")

C6_Witness ==
    /\ Switches /\ calls[2].ok /\ Called("con.cursor")
    /\ sh.cur.con = "desoper" /\ inp.before.cur.con = "dessci"

\* the chunk size and the memory size given to the command: the keyword
\* argument, or else the command-line option
GivenChunk == IF inp.chunksize # Nothing THEN inp.chunksize ELSE inp.chunksize_arg
GivenMem   == IF inp.memsize # Nothing THEN inp.memsize ELSE inp.memsize_arg

\* the rows per chunk C7 states
ClaimedChunk ==
    IF GivenChunk # Nothing /\ GivenMem # Nothing
    THEN Some(IF Get(GivenChunk) <= Get(inp.memrows) THEN Get(GivenChunk)
              ELSE Get(inp.memrows))
    ELSE IF GivenMem # Nothing THEN inp.memrows
    ELSE IF GivenChunk # Nothing THEN GivenChunk
    ELSE Nothing

\* data is read chunk by chunk: a FITS table, or a pandas reader that iterates
Chunked == loc.ftype = "fits" \/ loc.iterator

\* C7: in the loop of do_load_table and do_append_table the rows per chunk are
\* the smaller of chunksize and get_chunksize(filename, memsize) when both are
\* given, the one that is given when only one is, and None (the whole file)
\* when neither is; a file read chunk by chunk reaches insert_data in pieces
\* of exactly that many rows, but for a shorter last piece.
C7_RowsPerChunk ==
    (IsTableCmd /\ Called("read_file") /\ ~FailedCall("read_file")) =>
        /\ loc.chunk = IF ClaimedChunk = Nothing /\ loc.ftype = "fits"
                       THEN Some(inp.nrows) ELSE ClaimedChunk
        /\ \A i \in 1..Len(calls) :
             (calls[i].op = "insert_data" /\ Chunked) =>
                 IF ClaimedChunk = Nothing
                 THEN calls[i].rows = Rows(0, inp.nrows)
                 ELSE \/ Len(calls[i].rows) = Get(ClaimedChunk)
                      \/ /\ Len(calls[i].rows) < Get(ClaimedChunk)
                         /\ Len(InsertedRows(SubSeq(calls, 1, i - 1)))
                              + Len(calls[i].rows) = inp.nrows

C7_Witness ==
    /\ cmd = "load_table" /\ pc = "done" /\ Printed("loaded successfully")
    /\ GivenChunk = Some(2) /\ GivenMem # Nothing /\ inp.memrows = Some(1)
    /\ loc.iterator /\ loc.iteration = MaxRows
    /\ InsertedRows(calls) = Rows(0, MaxRows)

\* a message that rejects the table name
Rejected ==
    \/ Printed("Invalid table name, change filename or use --tablename")
    \/ Printed("Invalid table name")

\* C8 (as claimed): with an invalid character in the file name the command is
\* rejected when no --tablename is given and goes past the name check when
\* --tablename gives a clean name; a --tablename or name with an invalid
\* character is always rejected; no database call is made on rejection.
C8_NameCheck ==
    (IsTableCmd /\ inp.how = "ok" /\ inp.filename # Nothing) =>
        /\ (AnyInvalid(Get(inp.filename)) /\ inp.tablename = Nothing) =>
              Printed("Invalid table name, change filename or use --tablename")
        /\ (/\ AnyInvalid(Get(inp.filename))
            /\ inp.tablename # Nothing /\ ~AnyInvalid(Get(inp.tablename))
            /\ (inp.name = Nothing \/ ~AnyInvalid(Get(inp.name)))) => ~Rejected
        /\ (\/ inp.tablename # Nothing /\ AnyInvalid(Get(inp.tablename))
            \/ inp.name # Nothing /\ AnyInvalid(Get(inp.name))) => Rejected
        /\ Rejected => calls = <<>>

\* the file an appending write_file call finds current
CurrentFile ==
    LET se == Splitext(wr.filename)
    IN IF wr.given = 1 THEN wr.filename ELSE IndexedName(se[1], wr.given, se[2])

\* the file a rotating write_file call starts
NextFile ==
    LET se == Splitext(wr.filename)
    IN IndexedName(se[1], wr.given + 1, se[2])

\* C9 (as claimed): in append mode write_file appends to the current file as
\* long as that file is smaller than max_mb, and when it is not smaller it
\* writes a new file base_<fileindex+1><ext> in mode 'w' and returns
\* fileindex + 1.
C9_AppendWhileSmaller ==
    (wr.mode = "a" /\ ~wr.raised) =>
        /\ Len(wr.writes) = 1
        /\ IF wr.size < MaxMb
           THEN /\ wr.writes[1].file = CurrentFile
                /\ wr.writes[1].mode = "a"
                /\ wr.ret = wr.given
           ELSE /\ wr.writes[1].file = NextFile
                /\ wr.writes[1].mode = "w"
                /\ wr.ret = wr.given + 1

\* C10 (as claimed): a write_file call returns the fileindex it was given, or
\* that plus one exactly when it rotated (never in mode 'w'); the threaded
\* fileindex never decreases; and each call writes its data to exactly one
\* file through exactly one of write_pandas and write_fitsio.
C10_IndexAndSingleWrite ==
    /\ fileindex >= wr.given
    /\ (wr.mode # None /\ ~wr.raised) =>
          /\ wr.ret \in {wr.given, wr.given + 1}
          /\ wr.ret = wr.given + 1 <=> wr.rotated
          /\ wr.mode = "w" => wr.ret = wr.given
          /\ Len(wr.writes) = 1
          /\ wr.writes[1].writer \in {"write_pandas", "write_fitsio"}

\* what check_filetype looks up: the extension of the file name, or the whole
\* name when it has no extension
FileType(filename) ==
    IF Splitext(filename)[2] = <<>> THEN filename ELSE Splitext(filename)[2]

\* the extensions each function of fileio accepts
Accepted(fn) ==
    IF fn \in {"read_file", "write_file"} THEN FILE_EXTS
    ELSE IF fn \in {"read_pandas", "write_pandas"} THEN PANDAS_EXTS
    ELSE FITS_EXTS

Readers == {"read_file", "read_pandas", "read_fitsio"}
Gated == Readers \cup {"write_file", "write_pandas", "write_fitsio"}

\* C11: check_filetype(filename, types) returns True exactly when the
\* extension of the file name, or the whole name when it has no extension, is
\* in types, which is {.csv, .tab, .h5, .fits} when no types are given, and
\* raises IOError otherwise; read_file, write_file, read_pandas, write_pandas,
\* read_fitsio and write_fitsio called with a name whose extension (or whole
\* name, when there is none) is outside their accepted set raise that
\* IOError having called no reader, writer or os function and with every file
\* on disk as it was.
C11_FiletypeGate ==
    /\ FILE_EXTS = { <<".", "c", "s", "v">>, <<".", "t", "a", "b">>,
                     <<".", "h", "5">>, <<".", "f", "i", "t", "s">> }
    /\ io.fn = "check_filetype" =>
          /\ io.types = Nothing =>
                (io.msg = "True" <=> FileType(io.filename) \in FILE_EXTS)
          /\ io.types # Nothing =>
                (io.msg = "True" <=> FileType(io.filename) \in Get(io.types))
          /\ io.msg = "True" <=> io.error = None
          /\ io.msg # "True" <=> io.error = "IOError"
          /\ io.calls = <<>> /\ io.after = io.before
    /\ (io.fn \in Gated /\ FileType(io.filename) \notin Accepted(io.fn)) =>
          /\ io.error = "IOError" /\ io.msg = Unrecognized
          /\ io.calls = <<>>
          /\ io.after = io.before /\ fs = io.before

C11_Witness ==
    /\ io.fn = "write_fitsio" /\ io.mode = "w"
    /\ io.filename = <<"o">> \o EXT_CSV
    /\ io.filename \in DOMAIN fs
    /\ io.error = "IOError" /\ io.calls = <<>>

====
